---- MODULE Spec2Model ----
(***************************************************************************)
(* Model of the AHCI driver (Kernel/Modules/storage_ahci/lib.rs): the      *)
(* per-port command slot pool, command submission (do_fis), the interrupt  *)
(* handler, the command-table layout and the PRDT construction.            *)
(*                                                                         *)
(* A 32-bit register or bitmask is modelled as the set of its set bit      *)
(* positions: x & (1 << i) != 0 is i \in x, x | (1 << i) is x \cup {i},    *)
(* x & !(1 << i) is x \ {i}.                                               *)
(***************************************************************************)
EXTENDS Integers, Sequences, FiniteSets, TLC

\* ------------------------------------------------------------------ bounds
\* Slot pool (Spec): largest max_commands, number of concurrent holders of
\* the CommandSlot interface, and acquire/release rounds of each.
MaxCommands == 2
NumThreads == 2
MaxOps == 2
\* Command submission against the interrupt handler (SpecIrq): largest
\* max_commands and number of concurrent callers of do_fis.
IrqMaxCommands == 2
IrqThreads == 2

\* Port::new: assert!(max_commands <= 32), the slots of an HBA port
HBA_MAX_COMMANDS == 32
\* slot_idx of a thread that holds no CommandSlot: an index no slot has
NoSlot == HBA_MAX_COMMANDS

\* Interrupt causes of PxIS that the model's hardware raises.
IS_DHRS == "DHRS"
IS_TFES == "TFES"

VARIABLES
    \* ControllerInner / Port fields
    max_commands,        \* ControllerInner::max_commands
    used_commands,       \* Port::used_commands (AtomicU32), set of slot bits
    used_commands_sem,   \* Port::used_commands_sem, the semaphore's count
    command_events,      \* Port::command_events, slot -> event pending
    \* port registers
    PxCI, PxSACT, PxSERR, PxIS,
    \* callers of do_fis
    pc,                  \* thread -> position in do_fis
    cur_used_commands,   \* thread -> local of get_command_slot / drop
    slot_idx,            \* thread -> CommandSlot::idx of the handle it holds
    wait_active,         \* thread -> PxCI value read in CommandSlot::wait
    ops_left,            \* thread -> further calls it will make
    \* Port::handle_irq
    irq_pc, int_status, issued_commands, active_commands, error_commands,
    irq_used_commands, irq_cmd,
    \* history
    posts,               \* slot -> handler posts since the event was cleared
    early_post,          \* a post reached a slot whose command had not completed or errored
    irq_posted,          \* slots whose event this invocation of handle_irq has posted, in order
    \* Port::new (command-table layout)
    new_pc, new_max_commands, n_pages, tabents,
    \* do_fis (scatter-gather list)
    fis_pc,              \* position in do_fis
    data_va, data_len,   \* data.as_slice(): start address and length
    page_frames,         \* the page table: physical frame of each virtual page
    va, len, n_prdt_ents, base_phys, seglen,
    prdt, PRDTL,         \* slot.data.prdt (entries written), slot.hdr.PRDTL
    \* Port::update_connection
    conn_pc,             \* position in update_connection
    PxTFD, PxSSTS, PxSIG, \* the port's task-file, SATA-status, signature registers
    conn_tfd, conn_ssts, \* the locals tfd and ssts
    conn_cmds,           \* command bytes handed to request_identify, in order
    \* Port::request_ata_lba28
    h2d_pc,              \* position in request_ata_lba28
    h2d_disk, h2d_cmd, h2d_n_sectors, h2d_lba,   \* its arguments
    cmd_data,            \* the FisHost2DevReg it builds
    \* Controller::new and Controller::handle_irq
    ctrl_pc,             \* position in Controller::new / Controller::handle_irq
    GHC,                 \* REG_GHC, the set of its bits that are set
    ports_implemented,   \* REG_PI, the set of implemented port indexes
    PxCMD,               \* port -> REG_PxCMD, the set of its bits that are set
    cap_max_commands,    \* ((capabilities & CAP_NCS) >> CAP_NCS_ofs) + 1
    port_idx,            \* the loop variable of the two port loops
    n_ports,
    n_tab_pages,         \* Port::new: overflow pages allocated so far
    ctrl_ports,          \* Controller::ports, the indexes of the constructed ports
    irq_handle,          \* Controller::irq_handle is bound
    conn_scanned,        \* ports whose update_connection was called, in order
    cmd_seen,            \* port -> PxCMD value read by the first loop
    cmd_writes,          \* port -> values the driver wrote to PxCMD, in order
    base_written,        \* ports whose PxCLB/PxFB were written
    alloc_failed,        \* an alloc_dma call returned an error
    dma_released,        \* ports whose Port object, and with it its DMA pages, was dropped
    root_is, irq_port_i, irq_called, irq_rv,  \* Controller::handle_irq
    \* device_manager
    dm_pc,               \* position in register_bus / find_driver
    s_driver_list,       \* registered drivers, in registration order; a driver
                         \* is written [bus_type, ranking], ranking being what
                         \* its handles() returns for the device
    dm_bus_type,         \* bus.bus_type()
    dm_i,                \* the position of the loop over s_driver_list
    best_ranking, best_driver,   \* best_driver: position in the list, 0 for None
    dev_driver           \* Device::driver: position of the bound driver, 0 for None

portVars == << max_commands, used_commands, used_commands_sem, command_events,
               PxCI, PxSACT, PxSERR, PxIS >>
threadVars == << pc, cur_used_commands, slot_idx, wait_active, ops_left >>
irqVars == << irq_pc, int_status, issued_commands, active_commands,
              error_commands, irq_used_commands, irq_cmd >>
histVars == << posts, early_post, irq_posted >>
newVars == << new_pc, new_max_commands, n_pages, tabents >>
\* What the steps of a running port leave alone.
prdtVars == << fis_pc, data_va, data_len, page_frames, va, len, n_prdt_ents,
               base_phys, seglen, prdt, PRDTL >>
connVars == << conn_pc, PxTFD, PxSSTS, PxSIG, conn_tfd, conn_ssts, conn_cmds >>
h2dVars == << h2d_pc, h2d_disk, h2d_cmd, h2d_n_sectors, h2d_lba, cmd_data >>
ctrlVars == << ctrl_pc, GHC, ports_implemented, PxCMD, cap_max_commands,
               port_idx, n_ports, n_tab_pages, ctrl_ports, irq_handle,
               conn_scanned, cmd_seen, cmd_writes, base_written, alloc_failed, dma_released,
               root_is, irq_port_i, irq_called, irq_rv >>
dmVars == << dm_pc, s_driver_list, dm_bus_type, dm_i, best_ranking, best_driver,
            dev_driver >>
auxVars == << connVars, h2dVars, ctrlVars, dmVars >>
otherVars == << newVars, prdtVars, auxVars >>
runVars == << portVars, threadVars, irqVars, histVars >>
vars == << portVars, threadVars, irqVars, histVars, newVars, prdtVars, auxVars >>

\* ------------------------------------------------------- kernel primitives
\* Semaphore::acquire blocks until the count is positive, then takes one.
SemCanAcquire(count) == count > 0
SemAcquire(count) == count - 1
\* Semaphore::release returns one permit.
SemRelease(count) == count + 1
\* EventChannel: post() makes the event pending, clear() forgets a pending
\* event, sleep() returns once the event is pending and consumes it.
EventPost(pending) == TRUE
EventClear(pending) == FALSE
EventCanWake(pending) == pending
EventWake(pending) == FALSE

\* ------------------------------------------------------ get_command_slot
\* Mutant of SearchAvail: the search stops at index 0 without testing its bit.
SearchAvail_NoTest(cur, max) == 0

\* 2. Search: the lowest clear bit below max_commands, else max_commands.
SearchAvail(cur, max) ==
    IF \E i \in 0 .. (max - 1) : i \notin cur
    THEN CHOOSE i \in 0 .. (max - 1) :
            /\ i \notin cur
            /\ \A j \in 0 .. (max - 1) : j \notin cur => i <= j
    ELSE max

\* 3. try_new_val = cur_used_commands | (1 << avail)
TryNewVal(cur, avail) == cur \cup {avail}

\* Mutants of DropNewVal: the mask is not negated (cur & mask); the bit is
\* left as it is (cur).
DropNewVal_NoNegate(cur, idx) == cur \cap {idx}
DropNewVal_Keep(cur, idx) == cur

\* CommandSlot::drop: cur & !mask
\* Mutant of DropNewVal: the mask is not applied and every bit is cleared.
DropNewVal_ClearAll(cur, idx) == {}
DropNewVal(cur, idx) == cur \ {idx}

\* ------------------------------------------------------------ thread state
PanicPcs == { "assert_avail_failed", "panic_still_active", "panic_errored",
              "todo_drop_still_active" }
Threads == DOMAIN pc
Slots == 0 .. (max_commands - 1)
Halted == \E t \in Threads : pc[t] \in PanicPcs

\* The thread holds a CommandSlot handle (acquired and not yet released).
HolderPcs == { "acquired", "event_clear", "start_sact", "start_ci", "sleep", "wait_read_ci",
               "wait_read_serr", "drop_read_ci", "drop_load", "drop_cas" }
\* ... and has written PxCI for it.
IssuedPcs == { "sleep", "wait_read_ci", "wait_read_serr", "drop_read_ci",
               "drop_load", "drop_cas" }
Holds(t, s) == pc[t] \in HolderPcs /\ slot_idx[t] = s

\* The command issued on slot s has visibly completed or errored.
CompletedOrErrored(s) ==
    \E t \in Threads :
        /\ pc[t] \in IssuedPcs
        /\ slot_idx[t] = s
        /\ (s \notin PxCI \/ s \in PxSERR)

\* Port::new is not under way.
NewUnused ==
    /\ new_pc = "off" /\ new_max_commands = 0 /\ n_pages = 0 /\ tabents = << >>

\* No scatter-gather list is being built.
PrdtUnused ==
    /\ fis_pc = "off" /\ data_va = 0 /\ data_len = 0 /\ page_frames = << >>
    /\ va = 0 /\ len = 0 /\ n_prdt_ents = 0 /\ base_phys = 0 /\ seglen = 0
    /\ prdt = << >> /\ PRDTL = 0

\* update_connection is not running.
ConnUnused ==
    /\ conn_pc = "off" /\ PxTFD = 0 /\ PxSSTS = 0 /\ PxSIG = << >>
    /\ conn_tfd = 0 /\ conn_ssts = 0 /\ conn_cmds = << >>

\* request_ata_lba28 is not running.
H2dUnused ==
    /\ h2d_pc = "off" /\ h2d_disk = 0 /\ h2d_cmd = 0 /\ h2d_n_sectors = 0
    /\ h2d_lba = 0 /\ cmd_data = << >>

\* No controller is being constructed.
CtrlUnused ==
    /\ ctrl_pc = "off" /\ GHC = {} /\ ports_implemented = {} /\ PxCMD = << >>
    /\ cap_max_commands = 0 /\ port_idx = 0 /\ n_ports = 0 /\ n_tab_pages = 0
    /\ ctrl_ports = << >> /\ irq_handle = FALSE /\ conn_scanned = << >>
    /\ cmd_seen = << >> /\ cmd_writes = << >> /\ base_written = {}
    /\ alloc_failed = FALSE
    /\ dma_released = {}
    /\ root_is = {} /\ irq_port_i = 0 /\ irq_called = << >> /\ irq_rv = FALSE

\* The device manager is not in use.
DmUnused ==
    /\ dm_pc = "off" /\ s_driver_list = << >> /\ dm_bus_type = "" /\ dm_i = 0
    /\ best_ranking = 0 /\ best_driver = 0 /\ dev_driver = 0

\* None of the separately checked functions is running.
AuxUnused == ConnUnused /\ H2dUnused /\ CtrlUnused /\ DmUnused

\* The port as Port::new leaves it, for max_commands in 1 .. maxc, with
\* nthreads callers that each make nops calls.
InitPort(maxc, nthreads, nops) ==
    /\ NewUnused
    /\ PrdtUnused
    /\ AuxUnused
    /\ max_commands \in 1 .. maxc
    /\ used_commands = {}
    /\ used_commands_sem = max_commands
    /\ command_events = [s \in 0 .. (max_commands - 1) |-> FALSE]
    /\ PxCI = {} /\ PxSACT = {} /\ PxSERR = {} /\ PxIS = {}
    /\ pc = [t \in 1 .. nthreads |-> "idle"]
    /\ cur_used_commands = [t \in 1 .. nthreads |-> {}]
    /\ slot_idx = [t \in 1 .. nthreads |-> NoSlot]
    /\ wait_active = [t \in 1 .. nthreads |-> FALSE]
    /\ ops_left = [t \in 1 .. nthreads |-> nops]
    /\ irq_pc = "idle"
    /\ int_status = {} /\ issued_commands = {} /\ active_commands = {}
    /\ error_commands = {} /\ irq_used_commands = {} /\ irq_cmd = 0
    /\ posts = [s \in 0 .. (max_commands - 1) |-> 0]
    /\ early_post = FALSE
    /\ irq_posted = << >>

\* ---------------------------------------------------- get_command_slot
\* 0. self.used_commands_sem.acquire()
SemAcquireStep(t) ==
    /\ ~Halted
    /\ pc[t] = "idle"
    /\ ops_left[t] > 0
    /\ SemCanAcquire(used_commands_sem)
    /\ used_commands_sem' = SemAcquire(used_commands_sem)
    /\ ops_left' = [ops_left EXCEPT ![t] = @ - 1]
    /\ pc' = [pc EXCEPT ![t] = "load"]
    /\ UNCHANGED << max_commands, used_commands, command_events, PxCI, PxSACT,
                    PxSERR, PxIS >>
    /\ UNCHANGED << cur_used_commands, slot_idx, wait_active >>
    /\ UNCHANGED << irqVars, histVars >>
    /\ UNCHANGED otherVars

\* 1. cur_used_commands = self.used_commands.load()
LoadStep(t) ==
    /\ ~Halted
    /\ pc[t] = "load"
    /\ cur_used_commands' = [cur_used_commands EXCEPT ![t] = used_commands]
    /\ pc' = [pc EXCEPT ![t] = "cas"]
    /\ UNCHANGED << slot_idx, wait_active, ops_left >>
    /\ UNCHANGED << portVars, irqVars, histVars >>
    /\ UNCHANGED otherVars

\* 2, 3. search, assert, compare_and_swap; on success the CommandSlot is
\* returned, on failure the loop runs again with the value the swap read.
CasStep(t) ==
    LET cur == cur_used_commands[t]
        avail == SearchAvail(cur, max_commands)
    IN  /\ ~Halted
        /\ pc[t] = "cas"
        /\ IF ~(avail < max_commands)
           THEN /\ pc' = [pc EXCEPT ![t] = "assert_avail_failed"]
                /\ UNCHANGED << used_commands, cur_used_commands, slot_idx >>
           ELSE IF used_commands = cur
           THEN /\ used_commands' = TryNewVal(cur, avail)
                /\ slot_idx' = [slot_idx EXCEPT ![t] = avail]
                /\ cur_used_commands' = [cur_used_commands EXCEPT ![t] = {}]
                /\ pc' = [pc EXCEPT ![t] = "acquired"]
           ELSE /\ cur_used_commands' = [cur_used_commands EXCEPT ![t] = used_commands]
                /\ UNCHANGED << used_commands, slot_idx, pc >>
        /\ UNCHANGED << max_commands, used_commands_sem, command_events, PxCI,
                        PxSACT, PxSERR, PxIS >>
        /\ UNCHANGED << wait_active, ops_left >>
        /\ UNCHANGED << irqVars, histVars >>
        /\ UNCHANGED otherVars

\* --------------------------------------------------------------- do_fis
\* The slot's table is filled (memory of the slot alone), then
\* slot.event.clear()
EventClearStep(t) ==
    /\ ~Halted
    /\ pc[t] = "acquired"
    /\ command_events' = [command_events EXCEPT ![slot_idx[t]] = EventClear(@)]
    /\ posts' = [posts EXCEPT ![slot_idx[t]] = 0]
    /\ pc' = [pc EXCEPT ![t] = "start_sact"]
    /\ UNCHANGED << max_commands, used_commands, used_commands_sem, PxCI, PxSACT,
                    PxSERR, PxIS >>
    /\ UNCHANGED << cur_used_commands, slot_idx, wait_active, ops_left >>
    /\ UNCHANGED << irqVars, early_post, irq_posted >>
    /\ UNCHANGED otherVars

\* CommandSlot::start: write(PxSACT, mask)
StartSactStep(t) ==
    /\ ~Halted
    /\ pc[t] = "start_sact"
    /\ PxSACT' = PxSACT \cup {slot_idx[t]}
    /\ pc' = [pc EXCEPT ![t] = "start_ci"]
    /\ UNCHANGED << max_commands, used_commands, used_commands_sem, command_events,
                    PxCI, PxSERR, PxIS >>
    /\ UNCHANGED << cur_used_commands, slot_idx, wait_active, ops_left >>
    /\ UNCHANGED << irqVars, histVars >>
    /\ UNCHANGED otherVars

\* CommandSlot::start: write(PxCI, mask)
StartCiStep(t) ==
    /\ ~Halted
    /\ pc[t] = "start_ci"
    /\ PxCI' = PxCI \cup {slot_idx[t]}
    /\ pc' = [pc EXCEPT ![t] = "sleep"]
    /\ UNCHANGED << max_commands, used_commands, used_commands_sem, command_events,
                    PxSACT, PxSERR, PxIS >>
    /\ UNCHANGED << cur_used_commands, slot_idx, wait_active, ops_left >>
    /\ UNCHANGED << irqVars, histVars >>
    /\ UNCHANGED otherVars

\* CommandSlot::wait: self.event.sleep() returns once the event is pending
\* and consumes it
SleepStep(t) ==
    /\ ~Halted
    /\ pc[t] = "sleep"
    /\ EventCanWake(command_events[slot_idx[t]])
    /\ command_events' = [command_events EXCEPT ![slot_idx[t]] = EventWake(@)]
    /\ pc' = [pc EXCEPT ![t] = "wait_read_ci"]
    /\ UNCHANGED << max_commands, used_commands, used_commands_sem, PxCI, PxSACT,
                    PxSERR, PxIS >>
    /\ UNCHANGED << cur_used_commands, slot_idx, wait_active, ops_left >>
    /\ UNCHANGED << irqVars, histVars >>
    /\ UNCHANGED otherVars

\* CommandSlot::wait: active = regs.read(PxCI)
WaitReadCiStep(t) ==
    /\ ~Halted
    /\ pc[t] = "wait_read_ci"
    /\ wait_active' = [wait_active EXCEPT ![t] = (slot_idx[t] \in PxCI)]
    /\ pc' = [pc EXCEPT ![t] = "wait_read_serr"]
    /\ UNCHANGED << cur_used_commands, slot_idx, ops_left >>
    /\ UNCHANGED << portVars, irqVars, histVars >>
    /\ UNCHANGED otherVars

\* The outcome CommandSlot::wait derives from the slot's two bits: where the
\* caller goes on (the drop at the end of do_fis, or one of the two panics).
WaitOutcome(active, error) ==
    IF ~active THEN "drop_read_ci"
    ELSE IF ~error THEN "panic_still_active"
    ELSE "panic_errored"

\* CommandSlot::wait: error = regs.read(PxSERR), then the classification
WaitReadSerrStep(t) ==
    /\ ~Halted
    /\ pc[t] = "wait_read_serr"
    /\ pc' = [pc EXCEPT ![t] = WaitOutcome(wait_active[t], slot_idx[t] \in PxSERR)]
    /\ wait_active' = [wait_active EXCEPT ![t] = FALSE]
    /\ UNCHANGED << cur_used_commands, slot_idx, ops_left >>
    /\ UNCHANGED << portVars, irqVars, histVars >>
    /\ UNCHANGED otherVars

\* ------------------------------------------------------ CommandSlot::drop
\* cur_active = regs.read(PxCI); todo!() if the slot is still active
DropReadCiStep(t) ==
    /\ ~Halted
    /\ pc[t] = "drop_read_ci"
    /\ pc' = [pc EXCEPT ![t] = IF slot_idx[t] \in PxCI
                               THEN "todo_drop_still_active" ELSE "drop_load"]
    /\ UNCHANGED << cur_used_commands, slot_idx, wait_active, ops_left >>
    /\ UNCHANGED << portVars, irqVars, histVars >>
    /\ UNCHANGED otherVars

\* cur = used_commands.load()
DropLoadStep(t) ==
    /\ ~Halted
    /\ pc[t] = "drop_load"
    /\ cur_used_commands' = [cur_used_commands EXCEPT ![t] = used_commands]
    /\ pc' = [pc EXCEPT ![t] = "drop_cas"]
    /\ UNCHANGED << slot_idx, wait_active, ops_left >>
    /\ UNCHANGED << portVars, irqVars, histVars >>
    /\ UNCHANGED otherVars

\* compare_and_swap(cur, cur & !mask); the loop runs again on a mismatch
DropCasStep(t) ==
    /\ ~Halted
    /\ pc[t] = "drop_cas"
    /\ IF used_commands = cur_used_commands[t]
       THEN /\ used_commands' = DropNewVal(cur_used_commands[t], slot_idx[t])
            /\ slot_idx' = [slot_idx EXCEPT ![t] = NoSlot]
            /\ pc' = [pc EXCEPT ![t] = "sem_release"]
       ELSE /\ pc' = [pc EXCEPT ![t] = "drop_load"]
            /\ UNCHANGED << used_commands, slot_idx >>
    /\ cur_used_commands' = [cur_used_commands EXCEPT ![t] = {}]
    /\ UNCHANGED << max_commands, used_commands_sem, command_events, PxCI, PxSACT,
                    PxSERR, PxIS >>
    /\ UNCHANGED << wait_active, ops_left >>
    /\ UNCHANGED << irqVars, histVars >>
    /\ UNCHANGED otherVars

\* self.port.used_commands_sem.release(); the caller is back where it may
\* call again
SemReleaseStep(t) ==
    /\ ~Halted
    /\ pc[t] = "sem_release"
    /\ used_commands_sem' = SemRelease(used_commands_sem)
    /\ pc' = [pc EXCEPT ![t] = "idle"]
    /\ UNCHANGED << max_commands, used_commands, command_events, PxCI, PxSACT,
                    PxSERR, PxIS >>
    /\ UNCHANGED << cur_used_commands, slot_idx, wait_active, ops_left >>
    /\ UNCHANGED << irqVars, histVars >>
    /\ UNCHANGED otherVars

\* ------------------------------------------- holders of a CommandSlot
\* A holder of the handle may issue its command (CommandSlot::start) ...
HolderStart(t) ==
    /\ ~Halted
    /\ pc[t] = "acquired"
    /\ pc' = [pc EXCEPT ![t] = "start_sact"]
    /\ UNCHANGED << cur_used_commands, slot_idx, wait_active, ops_left >>
    /\ UNCHANGED << portVars, irqVars, histVars >>
    /\ UNCHANGED otherVars

\* ... and lets the handle go out of scope (CommandSlot::drop) when it likes.
HolderDrop(t) ==
    /\ ~Halted
    /\ pc[t] \in {"acquired", "sleep"}
    /\ pc' = [pc EXCEPT ![t] = "drop_read_ci"]
    /\ UNCHANGED << cur_used_commands, slot_idx, wait_active, ops_left >>
    /\ UNCHANGED << portVars, irqVars, histVars >>
    /\ UNCHANGED otherVars

\* ------------------------------------------------------------- hardware
\* The device completes the command of slot s: the HBA clears its PxCI and
\* PxSACT bits and raises the D2H register FIS interrupt.
HwComplete(s) ==
    /\ ~Halted
    /\ s \in PxCI
    /\ s \notin PxSERR
    /\ PxCI' = PxCI \ {s}
    /\ PxSACT' = PxSACT \ {s}
    /\ PxIS' = PxIS \cup {IS_DHRS}
    /\ UNCHANGED << max_commands, used_commands, used_commands_sem, command_events,
                    PxSERR >>
    /\ UNCHANGED << threadVars, irqVars, histVars >>
    /\ UNCHANGED otherVars

\* The command of slot s fails: its error bit is set, PxCI stays set and the
\* task-file error interrupt is raised.
HwError(s) ==
    /\ ~Halted
    /\ s \in PxCI
    /\ s \notin PxSERR
    /\ PxSERR' = PxSERR \cup {s}
    /\ PxIS' = PxIS \cup {IS_TFES}
    /\ UNCHANGED << max_commands, used_commands, used_commands_sem, command_events,
                    PxCI, PxSACT >>
    /\ UNCHANGED << threadVars, irqVars, histVars >>
    /\ UNCHANGED otherVars

\* ------------------------------------------------------ Port::handle_irq
\* The interrupt line is asserted while PxIS is non-zero; the handler starts
\* with int_status = regs.read(PxIS).
IrqReadIs ==
    /\ ~Halted
    /\ irq_pc = "idle"
    /\ PxIS # {}
    /\ int_status' = PxIS
    /\ irq_pc' = "read_ci"
    /\ UNCHANGED << issued_commands, active_commands, error_commands,
                    irq_used_commands, irq_cmd >>
    /\ UNCHANGED << portVars, threadVars, histVars >>
    /\ UNCHANGED otherVars

\* issued_commands = regs.read(PxCI)
IrqReadCi ==
    /\ ~Halted
    /\ irq_pc = "read_ci"
    /\ issued_commands' = PxCI
    /\ irq_pc' = "read_sact"
    /\ UNCHANGED << int_status, active_commands, error_commands,
                    irq_used_commands, irq_cmd >>
    /\ UNCHANGED << portVars, threadVars, histVars >>
    /\ UNCHANGED otherVars

\* active_commands = regs.read(PxSACT)
IrqReadSact ==
    /\ ~Halted
    /\ irq_pc = "read_sact"
    /\ active_commands' = PxSACT
    /\ irq_pc' = "read_serr"
    /\ UNCHANGED << int_status, issued_commands, error_commands,
                    irq_used_commands, irq_cmd >>
    /\ UNCHANGED << portVars, threadVars, histVars >>
    /\ UNCHANGED otherVars

\* error_commands = regs.read(PxSERR)
IrqReadSerr ==
    /\ ~Halted
    /\ irq_pc = "read_serr"
    /\ error_commands' = PxSERR
    /\ irq_pc' = "load_used"
    /\ UNCHANGED << int_status, issued_commands, active_commands,
                    irq_used_commands, irq_cmd >>
    /\ UNCHANGED << portVars, threadVars, histVars >>
    /\ UNCHANGED otherVars

\* Mutant of AfterLoad: the bitmask is fetched and cleared (a swap with 0).
AfterLoad_Swap(cur) == {}
\* AtomicU32::load leaves the value of the atomic as it is.
AfterLoad(cur) == cur

\* used_commands = self.used_commands.load()
IrqLoadUsed ==
    /\ ~Halted
    /\ irq_pc = "load_used"
    /\ irq_used_commands' = used_commands
    /\ used_commands' = AfterLoad(used_commands)
    /\ irq_cmd' = 0
    /\ irq_pc' = "scan"
    /\ UNCHANGED << int_status, issued_commands, active_commands, error_commands >>
    /\ UNCHANGED << max_commands, used_commands_sem, command_events, PxCI, PxSACT,
                    PxSERR, PxIS >>
    /\ UNCHANGED << threadVars, histVars >>
    /\ UNCHANGED otherVars

\* Mutant of IrqPosts: a used slot's event is posted only when its PxCI bit
\* is clear.
IrqPosts_IssueBitOnly(cmd, used, issued, active, error) ==
    cmd \in used /\ cmd \notin issued
\* The handler's decision for slot cmd: post its event or not.
IrqPosts(cmd, used, issued, active, error) ==
    /\ cmd \in used
    /\ \/ cmd \notin issued \/ cmd \notin active
       \/ cmd \in error

\* One iteration of: for cmd in 0 .. max_commands
IrqScan ==
    /\ ~Halted
    /\ irq_pc = "scan"
    /\ IF IrqPosts(irq_cmd, irq_used_commands, issued_commands, active_commands,
                   error_commands)
       THEN /\ command_events' = [command_events EXCEPT ![irq_cmd] = EventPost(@)]
            /\ posts' = [posts EXCEPT ![irq_cmd] = IF @ < 2 THEN @ + 1 ELSE @]
            /\ early_post' = (early_post \/ ~CompletedOrErrored(irq_cmd))
            /\ irq_posted' = Append(irq_posted, irq_cmd)
       ELSE UNCHANGED << command_events, histVars >>
    /\ IF irq_cmd + 1 < max_commands
       THEN /\ irq_cmd' = irq_cmd + 1
            /\ irq_pc' = irq_pc
       ELSE /\ irq_cmd' = 0
            /\ irq_pc' = "ack"
    /\ UNCHANGED << max_commands, used_commands, used_commands_sem, PxCI, PxSACT,
                    PxSERR, PxIS >>
    /\ UNCHANGED << int_status, issued_commands, active_commands, error_commands,
                    irq_used_commands >>
    /\ UNCHANGED threadVars
    /\ UNCHANGED otherVars

\* regs.write(PxIS, int_status): the bits read are cleared (write 1 to clear)
IrqAck ==
    /\ ~Halted
    /\ irq_pc = "ack"
    /\ PxIS' = PxIS \ int_status
    /\ irq_pc' = "idle"
    /\ int_status' = {} /\ issued_commands' = {} /\ active_commands' = {}
    /\ error_commands' = {} /\ irq_used_commands' = {}
    /\ UNCHANGED << max_commands, used_commands, used_commands_sem, command_events,
                    PxCI, PxSACT, PxSERR >>
    /\ irq_posted' = << >>
    /\ UNCHANGED << irq_cmd, threadVars, posts, early_post >>
    /\ UNCHANGED otherVars

\* ------------------------------------------------------ specifications
AcquireStep(t) == SemAcquireStep(t) \/ LoadStep(t) \/ CasStep(t)

ReleaseStep(t) ==
    DropReadCiStep(t) \/ DropLoadStep(t) \/ DropCasStep(t) \/ SemReleaseStep(t)

\* The slot pool under NumThreads holders that acquire a slot, may issue a
\* command on it, and release it, MaxOps times each.
Init == InitPort(MaxCommands, NumThreads, MaxOps)

Next ==
    \/ \E t \in 1 .. NumThreads : AcquireStep(t)
    \/ \E t \in 1 .. NumThreads :
          HolderStart(t) \/ StartSactStep(t) \/ StartCiStep(t) \/ HolderDrop(t)
    \/ \E t \in 1 .. NumThreads : ReleaseStep(t)
    \/ \E s \in Slots : HwComplete(s)

Spec == Init /\ [][Next]_vars

\* do_fis called once by each of IrqThreads callers, against the hardware
\* and the interrupt handler.
DoFisStep(t) ==
    \/ AcquireStep(t)
    \/ EventClearStep(t) \/ StartSactStep(t) \/ StartCiStep(t)
    \/ SleepStep(t) \/ WaitReadCiStep(t) \/ WaitReadSerrStep(t)
    \/ ReleaseStep(t)

IrqStep ==
    \/ IrqReadIs \/ IrqReadCi \/ IrqReadSact \/ IrqReadSerr
    \/ IrqLoadUsed \/ IrqScan \/ IrqAck

InitIrq == InitPort(IrqMaxCommands, IrqThreads, 1)

NextIrq ==
    \/ \E t \in 1 .. IrqThreads : DoFisStep(t)
    \/ IrqStep
    \/ \E s \in Slots : HwComplete(s)
    \/ \E s \in Slots : HwError(s)

SpecIrq == InitIrq /\ [][NextIrq]_vars

\* ----------------------------------------------- Port::new: table layout
\* ::kernel::PAGE_SIZE, size_of::<hw::CmdHeader>(), size_of::<hw::CmdTable>()
\* (the 0x100 of CMDS_PER_PAGE and cmdidx_to_ref), size_of::<hw::RcvdFis>()
PAGE_SIZE == 4096
CMD_HEADER_SIZE == 32
CMD_TABLE_SIZE == 256
RCVD_FIS_SIZE == 256
\* command_tables: [AllocHandle; 4]
N_CMDTAB_PAGES == 4

\* Maximum number of commands before a single page can't be shared
MAX_COMMANDS_FOR_SHARE == (PAGE_SIZE - 256) \div (256 + 32)
CMDS_PER_PAGE == PAGE_SIZE \div CMD_TABLE_SIZE

\* Port::new: the number of overflow pages it allocates for the command tables
NewTabPages(max) ==
    IF max <= MAX_COMMANDS_FOR_SHARE
    THEN 0
    ELSE (max - MAX_COMMANDS_FOR_SHARE + CMDS_PER_PAGE - 1) \div CMDS_PER_PAGE

\* cmdidx_to_ref: n_shared, the entries it places in the command-list page
NShared(cl_size) == (PAGE_SIZE - cl_size) \div CMD_TABLE_SIZE - 1

\* cmdidx_to_ref: the table entry of slot i, as the page it lies in (the
\* command-list page, or cmdtab_pages[pg]) and its byte offset in that page
cmdidx_to_ref(cl_size, i) ==
    LET n_shared == NShared(cl_size)
    IN  IF i < n_shared
        THEN [shared |-> TRUE, pg |-> 0, ofs |-> cl_size + i * CMD_TABLE_SIZE]
        ELSE LET j == i - n_shared
             IN  [shared |-> FALSE, pg |-> j \div CMDS_PER_PAGE,
                  ofs |-> (j % CMDS_PER_PAGE) * CMD_TABLE_SIZE]

\* Port::new is entered with max_commands = CAP.NCS + 1.
InitNew ==
    /\ new_pc = "alloc"
    /\ new_max_commands \in 1 .. HBA_MAX_COMMANDS
    /\ n_pages = 0
    /\ tabents = << >>

\* Port::new: cl_page and the overflow pages are allocated (assert n_pages < 4)
NewAlloc ==
    /\ new_pc = "alloc"
    /\ n_pages' = NewTabPages(new_max_commands)
    /\ new_pc' = IF NewTabPages(new_max_commands) < N_CMDTAB_PAGES
                 THEN "init_entries" ELSE "assert_n_pages_failed"
    /\ UNCHANGED << new_max_commands, tabents >>

\* Port::new: one command header is pointed at its table entry,
\* cmdidx_to_ref(&cl_page, cl_size, &cmdtab_pages, i); an index past
\* cmdtab_pages panics
NewInitEntry ==
    LET i == Len(tabents)
        ref == cmdidx_to_ref(new_max_commands * CMD_HEADER_SIZE, i)
    IN  /\ new_pc = "init_entries"
        /\ i < new_max_commands
        /\ IF ~ref.shared /\ ref.pg >= N_CMDTAB_PAGES
           THEN /\ new_pc' = "index_out_of_bounds"
                /\ UNCHANGED tabents
           ELSE /\ tabents' = Append(tabents, ref)
                /\ new_pc' = IF i + 1 = new_max_commands THEN "program_regs"
                             ELSE "init_entries"
        /\ UNCHANGED << new_max_commands, n_pages >>

\* The port, its callers and its interrupt handler do not exist yet.
PortUnused ==
    /\ max_commands = 0 /\ used_commands = {} /\ used_commands_sem = 0
    /\ command_events = << >>
    /\ PxCI = {} /\ PxSACT = {} /\ PxSERR = {} /\ PxIS = {}
    /\ pc = << >> /\ cur_used_commands = << >> /\ slot_idx = << >>
    /\ wait_active = << >> /\ ops_left = << >>
    /\ irq_pc = "idle"
    /\ int_status = {} /\ issued_commands = {} /\ active_commands = {}
    /\ error_commands = {} /\ irq_used_commands = {} /\ irq_cmd = 0
    /\ posts = << >> /\ early_post = FALSE /\ irq_posted = << >>

InitLayout == InitNew /\ PortUnused /\ PrdtUnused /\ AuxUnused

NextLayout ==
    \/ NewAlloc /\ UNCHANGED << runVars, prdtVars, auxVars >>
    \/ NewInitEntry /\ UNCHANGED << runVars, prdtVars, auxVars >>

SpecLayout == InitLayout /\ [][NextLayout]_vars

\* ------------------------------------------- do_fis: scatter-gather list
\* const MAX_SEG_LEN: usize = (1 << 22)
MAX_SEG_LEN == 4194304
\* A PRDT entry is written as [DBA, DBC, IOC]: DBC holds bits 0..21 of the
\* DBC word (the byte count minus one) and IOC is its bit 31.

\* kernel::memory::virt::get_phys: the physical address of a virtual one.
\* page_frames lists the frames of the leading pages; the pages after them
\* follow the last listed frame contiguously.
FrameOf(vpage) ==
    IF vpage < Len(page_frames)
    THEN page_frames[vpage + 1]
    ELSE page_frames[Len(page_frames)] + (vpage - Len(page_frames) + 1)
get_phys(addr) == FrameOf(addr \div PAGE_SIZE) * PAGE_SIZE + (addr % PAGE_SIZE)

Min(a, b) == IF a <= b THEN a ELSE b

\* Mutant of SegExtends: the last byte of the segment is compared with the
\* address one past it (base + seglen), which never matches.
SegExtends_OffByOne(v, l, base, seg) ==
    /\ seg < l
    /\ seg <= MAX_SEG_LEN
    /\ get_phys(v + seg - 1) = base + seg

\* The inner loop's test: the segment may grow by another page.
SegExtends(v, l, base, seg) ==
    /\ seg < l
    /\ seg <= MAX_SEG_LEN
    /\ get_phys(v + seg - 1) = base + (seg - 1)

\* let mut va = ..; let mut len = ..; let mut n_prdt_ents = 0;
\* while len > 0 { base_phys = get_phys(va); seglen = PAGE_SIZE - base_phys % PAGE_SIZE
FisLoop ==
    /\ fis_pc = "loop"
    /\ IF len > 0
       THEN /\ base_phys' = get_phys(va)
            /\ seglen' = PAGE_SIZE - (get_phys(va) % PAGE_SIZE)
            /\ fis_pc' = "extend"
       ELSE /\ fis_pc' = "set_ioc"
            /\ UNCHANGED << base_phys, seglen >>
    /\ UNCHANGED << data_va, data_len, page_frames, va, len, n_prdt_ents, prdt,
                    PRDTL >>

\* while seglen < len && seglen <= MAX_SEG_LEN && get_phys(va + seglen-1) ==
\* base_phys + (seglen-1) { seglen += PAGE_SIZE; }
FisExtend ==
    /\ fis_pc = "extend"
    /\ IF SegExtends(va, len, base_phys, seglen)
       THEN /\ seglen' = seglen + PAGE_SIZE
            /\ UNCHANGED fis_pc
       ELSE /\ fis_pc' = "emit"
            /\ UNCHANGED seglen
    /\ UNCHANGED << data_va, data_len, page_frames, va, len, n_prdt_ents,
                    base_phys, prdt, PRDTL >>

\* seglen = min(len, seglen); seglen = min(MAX_SEG_LEN, seglen); the alignment
\* todo!(); the entry is written and va, len, n_prdt_ents move on
FisEmit ==
    LET seg == Min(MAX_SEG_LEN, Min(len, seglen))
    IN  /\ fis_pc = "emit"
        /\ IF base_phys % 4 # 0 \/ seg % 2 # 0
           THEN /\ fis_pc' = "todo_bounce_buffer"
                /\ UNCHANGED << va, len, n_prdt_ents, prdt, seglen >>
           ELSE /\ prdt' = Append(prdt, [DBA |-> base_phys, DBC |-> seg - 1,
                                      IOC |-> FALSE])
                /\ va' = va + seg
                /\ len' = len - seg
                /\ n_prdt_ents' = n_prdt_ents + 1
                /\ seglen' = 0
                /\ fis_pc' = "loop"
        /\ UNCHANGED << data_va, data_len, page_frames, base_phys, PRDTL >>

\* slot.data.prdt[n_prdt_ents-1].DBC |= 1 << 31; slot.hdr.PRDTL = n_prdt_ents.
\* With no entry the index n_prdt_ents-1 is out of range and the kernel panics.
FisSetIoc ==
    /\ fis_pc = "set_ioc"
    /\ IF n_prdt_ents = 0
       THEN /\ fis_pc' = "panic_prdt_index"
            /\ UNCHANGED << prdt, PRDTL >>
       ELSE /\ prdt' = [prdt EXCEPT ![n_prdt_ents].IOC = TRUE]
            /\ PRDTL' = n_prdt_ents % 65536
            /\ fis_pc' = "issue"
    /\ UNCHANGED << data_va, data_len, page_frames, va, len, n_prdt_ents,
                    base_phys, seglen >>

\* The data buffers do_fis is checked with: a buffer that starts in virtual
\* page 0, of a length around a whole number of pages or around the 4MB
\* segment limit, under every injective placement of its leading pages.
MaxMapPages == 3
NumFrames == 4
DataOffsets == {0, 1, 4, PAGE_SIZE - 4}
DataLens ==
    { k * PAGE_SIZE + d : k \in 0 .. MaxMapPages, d \in {0, 2, 3, PAGE_SIZE - 4} }
      \cup { MAX_SEG_LEN - PAGE_SIZE, MAX_SEG_LEN, MAX_SEG_LEN + 2 * PAGE_SIZE }
PageMaps ==
    { f \in [1 .. MaxMapPages -> 0 .. (NumFrames - 1)] :
        \A i, j \in 1 .. MaxMapPages : i # j => f[i] # f[j] }

InitPrdt ==
    /\ fis_pc = "loop"
    /\ data_va \in DataOffsets
    /\ data_len \in DataLens
    /\ page_frames \in PageMaps
    /\ va = data_va
    /\ len = data_len
    /\ n_prdt_ents = 0 /\ base_phys = 0 /\ seglen = 0
    /\ prdt = << >> /\ PRDTL = 0
    /\ NewUnused
    /\ PortUnused
    /\ AuxUnused

NextPrdt ==
    \/ FisLoop /\ UNCHANGED << runVars, newVars, auxVars >>
    \/ FisExtend /\ UNCHANGED << runVars, newVars, auxVars >>
    \/ FisEmit /\ UNCHANGED << runVars, newVars, auxVars >>
    \/ FisSetIoc /\ UNCHANGED << runVars, newVars, auxVars >>

SpecPrdt == InitPrdt /\ [][NextPrdt]_vars

\* ------------------------------------------------------ CommandSlot::wait
\* The classification of CommandSlot::wait over every value the two registers
\* can show: one caller holds slot idx, its command has been issued and its
\* event posted, and PxCI and PxSERR hold arbitrary bits (PxSERR is sticky
\* and the device sets its bits on recovered errors too).
WaitMaxCommands == 3
InitWait ==
    /\ NewUnused
    /\ PrdtUnused
    /\ AuxUnused
    /\ max_commands \in 1 .. WaitMaxCommands
    /\ \E idx \in 0 .. (max_commands - 1) :
          /\ used_commands = {idx}
          /\ slot_idx = [t \in 1 .. 1 |-> idx]
          /\ command_events = [s \in 0 .. (max_commands - 1) |-> s = idx]
    /\ used_commands_sem = max_commands - 1
    /\ PxCI \in SUBSET (0 .. (max_commands - 1))
    /\ PxSERR \in SUBSET (0 .. (max_commands - 1))
    /\ PxSACT = PxCI /\ PxIS = {}
    /\ pc = [t \in 1 .. 1 |-> "sleep"]
    /\ cur_used_commands = [t \in 1 .. 1 |-> {}]
    /\ wait_active = [t \in 1 .. 1 |-> FALSE]
    /\ ops_left = [t \in 1 .. 1 |-> 0]
    /\ irq_pc = "idle"
    /\ int_status = {} /\ issued_commands = {} /\ active_commands = {}
    /\ error_commands = {} /\ irq_used_commands = {} /\ irq_cmd = 0
    /\ posts = [s \in 0 .. (max_commands - 1) |-> 0]
    /\ early_post = FALSE
    /\ irq_posted = << >>

NextWait ==
    \/ SleepStep(1)
    \/ WaitReadCiStep(1)
    \/ WaitReadSerrStep(1)

SpecWait == InitWait /\ [][NextWait]_vars

\* ------------------------------------------------ Port::update_connection
\* hw::PxTFD_STS_BSY, hw::PxTFD_STS_DRQ: the BSY and DRQ bits of the task-file
\* status byte; hw::PxSSTS_DET: the width of the PHY-detect field at bit 0.
PxTFD_STS_BSY == 128
PxTFD_STS_DRQ == 8
PxSSTS_DET_WIDTH == 16
\* const ATA_IDENTIFY: u8 = 0xEC; const ATA_IDENTIFY_PACKET: u8 = 0xA1
ATA_IDENTIFY == 236
ATA_IDENTIFY_PACKET == 161
\* A 32-bit signature is written as its four bytes, most significant first:
\* 0x00000101 and 0xEB140101.
SIG_ATA == << 0, 0, 1, 1 >>
SIG_ATAPI == << 235, 20, 1, 1 >>

\* x & mask != 0 for a one-bit mask
TestBit(x, mask) == (x \div mask) % 2 = 1
\* tfd & (PxTFD_STS_BSY | PxTFD_STS_DRQ) != 0
TfdBusy(tfd) == TestBit(tfd, PxTFD_STS_BSY) \/ TestBit(tfd, PxTFD_STS_DRQ)
\* (ssts & PxSSTS_DET) >> PxSSTS_DET_ofs
SstsDet(ssts) == ssts % PxSSTS_DET_WIDTH

\* Mutant of SigCommands: IDENTIFY is requested whatever the signature.
SigCommands_AlwaysIdentify(sig) == << ATA_IDENTIFY >>
\* match io.read(REG_PxSIG): the commands requested for a signature
SigCommands(sig) ==
    IF sig = SIG_ATA THEN << ATA_IDENTIFY >>
    ELSE IF sig = SIG_ATAPI THEN << ATA_IDENTIFY_PACKET >>
    ELSE << >>

\* let (tfd, ssts) = (io.read(REG_PxTFD), io.read(REG_PxSSTS))
ConnReadStatus ==
    /\ conn_pc = "read_status"
    /\ conn_tfd' = PxTFD
    /\ conn_ssts' = PxSSTS
    /\ conn_pc' = "check"
    /\ UNCHANGED << PxTFD, PxSSTS, PxSIG, conn_cmds >>

\* the two early returns
ConnCheck ==
    /\ conn_pc = "check"
    /\ conn_pc' = IF TfdBusy(conn_tfd) THEN "done"
                  ELSE IF SstsDet(conn_ssts) # 3 THEN "done"
                  ELSE "match_sig"
    /\ UNCHANGED << PxTFD, PxSSTS, PxSIG, conn_tfd, conn_ssts, conn_cmds >>

\* match io.read(REG_PxSIG) { .. self.request_identify(cmd) .. }
ConnMatchSig ==
    /\ conn_pc = "match_sig"
    /\ conn_cmds' = conn_cmds \o SigCommands(PxSIG)
    /\ conn_pc' = "done"
    /\ UNCHANGED << PxTFD, PxSSTS, PxSIG, conn_tfd, conn_ssts >>

\* The register values update_connection is checked with.
TfdValues == { 0, 1, 8, 80, 81, 88, 128, 136, 208 }
SstsValues == { 0, 1, 3, 4, 275, 291, 305 }
SigValues == { SIG_ATA, SIG_ATAPI, << 0, 0, 0, 0 >>, << 255, 255, 255, 255 >>,
               << 150, 105, 1, 1 >>, << 195, 60, 1, 1 >>, << 235, 20, 0, 0 >>,
               << 1, 1, 0, 0 >> }

InitConn ==
    /\ conn_pc = "read_status"
    /\ PxTFD \in TfdValues
    /\ PxSSTS \in SstsValues
    /\ PxSIG \in SigValues
    /\ conn_tfd = 0 /\ conn_ssts = 0 /\ conn_cmds = << >>
    /\ NewUnused /\ PortUnused /\ PrdtUnused
    /\ H2dUnused /\ CtrlUnused /\ DmUnused

NextConn ==
    \/ ConnReadStatus /\ UNCHANGED << runVars, newVars, prdtVars, h2dVars, ctrlVars, dmVars >>
    \/ ConnCheck /\ UNCHANGED << runVars, newVars, prdtVars, h2dVars, ctrlVars, dmVars >>
    \/ ConnMatchSig /\ UNCHANGED << runVars, newVars, prdtVars, h2dVars, ctrlVars, dmVars >>

SpecConn == InitConn /\ [][NextConn]_vars

\* ------------------------------------------------ Port::request_ata_lba28
\* hw::sata::FisType::H2DRegister
FIS_TYPE_H2D == 39
\* x as u8
AsU8(x) == x % 256
\* a | b on bytes
RECURSIVE BitOr8(_, _, _)
BitOr8(a, b, bits) ==
    IF bits = 0 THEN 0
    ELSE (IF a % 2 = 1 \/ b % 2 = 1 THEN 1 ELSE 0)
         + 2 * BitOr8(a \div 2, b \div 2, bits - 1)
BitOr(a, b) == BitOr8(a, b, 8)

\* assert!(lba < (1<<24))
LBA_ASSERT_LIMIT == 16777216

\* dev_head: 0x40 | (disk << 4) | (lba >> 24) as u8
DevHead(disk, lba) ==
    BitOr(BitOr(64, AsU8(disk * 16)), AsU8(lba \div 16777216))

\* hw::sata::FisHost2DevReg { .. }
FisHost2DevReg(disk, cmd, n_sectors, lba) ==
    [ ty |-> FIS_TYPE_H2D,
      flags |-> 128,
      command |-> cmd,
      sector_num |-> AsU8(lba),
      cyl_low |-> AsU8(lba \div 256),
      cyl_high |-> AsU8(lba \div 65536),
      dev_head |-> DevHead(disk, lba),
      sector_num_exp |-> 0,
      sector_count |-> n_sectors,
      sector_count_exp |-> 0 ]

\* assert!(lba < (1<<24))
H2dAssert ==
    /\ h2d_pc = "assert_lba"
    /\ h2d_pc' = IF h2d_lba < LBA_ASSERT_LIMIT THEN "build" ELSE "assert_lba_failed"
    /\ UNCHANGED << h2d_disk, h2d_cmd, h2d_n_sectors, h2d_lba, cmd_data >>

\* let cmd_data = FisHost2DevReg { .. }; self.do_fis(cmd_data.as_ref(), ..)
H2dBuild ==
    /\ h2d_pc = "build"
    /\ cmd_data' = FisHost2DevReg(h2d_disk, h2d_cmd, h2d_n_sectors, h2d_lba)
    /\ h2d_pc' = "do_fis"
    /\ UNCHANGED << h2d_disk, h2d_cmd, h2d_n_sectors, h2d_lba >>

\* The arguments request_ata_lba28 is checked with: the corners of each
\* packed field of a 28-bit LBA, both disks, and sector counts of a byte.
LbaValues == { 0, 1, 255, 256, 65535, 65536, 11259375, 16777215, 16777216,
               16777217, 184549375, 262917615, 268435455 }
SectorCounts == { 0, 1, 3, 128, 255 }
H2dCommands == { 32, 236 }

InitH2d ==
    /\ h2d_pc = "assert_lba"
    /\ h2d_disk \in { 0, 1 }
    /\ h2d_cmd \in H2dCommands
    /\ h2d_n_sectors \in SectorCounts
    /\ h2d_lba \in LbaValues
    /\ cmd_data = << >>
    /\ NewUnused /\ PortUnused /\ PrdtUnused
    /\ ConnUnused /\ CtrlUnused /\ DmUnused

NextH2d ==
    \/ H2dAssert /\ UNCHANGED << runVars, newVars, prdtVars, connVars, ctrlVars, dmVars >>
    \/ H2dBuild /\ UNCHANGED << runVars, newVars, prdtVars, connVars, ctrlVars, dmVars >>

SpecH2d == InitH2d /\ [][NextH2d]_vars

\* ------------------------------------------------------ Controller::new
\* The ports of the HBA the controller is checked with (the code scans 32).
NumPorts == 2
Ports == 0 .. (NumPorts - 1)
\* hw::PxCMD_ST, PxCMD_CR, PxCMD_FRE, PxCMD_FR; hw::GHC_AE, GHC_IE
PxCMD_ST == "ST"
PxCMD_CR == "CR"
PxCMD_FRE == "FRE"
PxCMD_FR == "FR"
GHC_AE == "AE"
GHC_IE == "IE"

\* cmd & (PxCMD_ST|PxCMD_CR|PxCMD_FRE|PxCMD_FR) != 0
CmdNotIdle(cmd) == cmd \cap { PxCMD_ST, PxCMD_CR, PxCMD_FRE, PxCMD_FR } # {}
\* Mutant of CmdRunning: the second loop never finds a port running.
CmdRunning_Never(cmd) == FALSE
\* cmd & (PxCMD_CR|PxCMD_FR) != 0
CmdRunning(cmd) == cmd \cap { PxCMD_CR, PxCMD_FR } # {}

\* Mutant of AllocFailurePc: the allocation error is swallowed and
\* construction goes on to enable interrupts.
\* The ports pushed to ret.ports so far. When a try! in Controller::new returns
\* the error, ret is dropped: every Port in it is discarded, and with it the
\* AllocHandles of its command list and command tables (there is no Drop impl
\* for Port, so nothing else happens to the port).
ConstructedPorts == { ctrl_ports[i] : i \in 1 .. Len(ctrl_ports) }

AllocFailurePc_Swallowed == "enable_irq"
\* try!(alloc_dma(..)), try!(Port::new(..)): the error is returned at once
AllocFailurePc == "bind_error"

\* Mutant of RootIsBitSet: every port is taken to have its bit set.
RootIsBitSet_Always(is, index) == TRUE
\* root_is & (1 << port.index) != 0
RootIsBitSet(is, index) == index \in is

\* A write to PxCMD: CR and FR are read-only status bits that the HBA alone
\* changes; the other bits take the value written.
PxCmdWrite(old, val) ==
    (val \ { PxCMD_CR, PxCMD_FR }) \cup (old \cap { PxCMD_CR, PxCMD_FR })

\* Mutant of NextPortPc: the loop ends after its first iteration.
NextPortPc_StopEarly(here, next) == next
\* The loop variable moves on; past the last port the loop ends at pc next.
NextPortPc(here, next) == IF port_idx + 1 < NumPorts THEN here ELSE next
NextPortIdx == IF port_idx + 1 < NumPorts THEN port_idx + 1 ELSE 0

\* The HBA: PxCMD.CR follows PxCMD.ST and PxCMD.FR follows PxCMD.FRE, each
\* after a delay.
HwCmdCr(p) ==
    /\ ctrl_pc # "off"
    /\ (PxCMD_CR \in PxCMD[p]) # (PxCMD_ST \in PxCMD[p])
    /\ PxCMD' = [PxCMD EXCEPT ![p] = IF PxCMD_ST \in @ THEN @ \cup { PxCMD_CR }
                                     ELSE @ \ { PxCMD_CR }]
    /\ UNCHANGED << ctrl_pc, GHC, ports_implemented, cap_max_commands,
                    port_idx, n_ports, n_tab_pages, ctrl_ports, irq_handle,
                    conn_scanned, cmd_seen, cmd_writes, base_written,
                    alloc_failed, dma_released, root_is, irq_port_i, irq_called, irq_rv >>

HwCmdFr(p) ==
    /\ ctrl_pc # "off"
    /\ (PxCMD_FR \in PxCMD[p]) # (PxCMD_FRE \in PxCMD[p])
    /\ PxCMD' = [PxCMD EXCEPT ![p] = IF PxCMD_FRE \in @ THEN @ \cup { PxCMD_FR }
                                     ELSE @ \ { PxCMD_FR }]
    /\ UNCHANGED << ctrl_pc, GHC, ports_implemented, cap_max_commands,
                    port_idx, n_ports, n_tab_pages, ctrl_ports, irq_handle,
                    conn_scanned, cmd_seen, cmd_writes, base_written,
                    alloc_failed, dma_released, root_is, irq_port_i, irq_called, irq_rv >>

\* io.write_32(REG_GHC, GHC_AE); ports_implemented = io.read_32(REG_PI)
CtrlEnableAhci ==
    /\ ctrl_pc = "ghc_ae"
    /\ GHC' = { GHC_AE }
    /\ port_idx' = 0
    /\ ctrl_pc' = "enum"
    /\ UNCHANGED << ports_implemented, PxCMD, cap_max_commands, n_ports,
                    n_tab_pages, ctrl_ports, irq_handle, conn_scanned,
                    cmd_seen, cmd_writes, base_written, alloc_failed, dma_released,
                    root_is, irq_port_i, irq_called, irq_rv >>

\* for port_idx in 0 .. 32: skip an unimplemented port; read PxCMD and write
\* 0 to it if the port is not idle; n_ports += 1. After the loop the
\* capabilities are read and the Controller is boxed.
CtrlEnumPort ==
    /\ ctrl_pc = "enum"
    /\ IF port_idx \in ports_implemented
       THEN /\ cmd_seen' = [cmd_seen EXCEPT ![port_idx] = PxCMD[port_idx]]
            /\ IF CmdNotIdle(PxCMD[port_idx])
               THEN /\ PxCMD' = [PxCMD EXCEPT ![port_idx] = PxCmdWrite(@, {})]
                    /\ cmd_writes' = [cmd_writes EXCEPT ![port_idx] = Append(@, {})]
               ELSE UNCHANGED << PxCMD, cmd_writes >>
            /\ n_ports' = n_ports + 1
       ELSE UNCHANGED << cmd_seen, PxCMD, cmd_writes, n_ports >>
    /\ port_idx' = NextPortIdx
    /\ ctrl_pc' = NextPortPc("enum", "check_idle")
    /\ UNCHANGED << GHC, ports_implemented, cap_max_commands, n_tab_pages,
                    ctrl_ports, irq_handle, conn_scanned, base_written,
                    alloc_failed, dma_released, root_is, irq_port_i, irq_called, irq_rv >>

\* for port_idx in 0 .. 32: skip an unimplemented port; todo!() if PxCMD
\* still shows CR or FR; otherwise Port::new is entered. After the loop
\* interrupts are enabled.
CtrlCheckIdle ==
    /\ ctrl_pc = "check_idle"
    /\ IF port_idx \notin ports_implemented
       THEN /\ port_idx' = NextPortIdx
            /\ ctrl_pc' = NextPortPc("check_idle", "enable_irq")
       ELSE /\ ctrl_pc' = IF CmdRunning(PxCMD[port_idx])
                          THEN "todo_wait_idle" ELSE "alloc_cl"
            /\ UNCHANGED port_idx
    /\ UNCHANGED << GHC, ports_implemented, PxCMD, cap_max_commands, n_ports,
                    n_tab_pages, ctrl_ports, irq_handle, conn_scanned,
                    cmd_seen, cmd_writes, base_written, alloc_failed, dma_released,
                    root_is, irq_port_i, irq_called, irq_rv >>

\* Port::new: let cl_page = try!(alloc_dma(64, 1, "AHCI"))
CtrlAllocCl ==
    /\ ctrl_pc = "alloc_cl"
    /\ \E ok \in BOOLEAN :
          IF ok
          THEN /\ ctrl_pc' = "alloc_tab"
               /\ n_tab_pages' = 0
               /\ UNCHANGED << alloc_failed, dma_released >>
          ELSE /\ ctrl_pc' = AllocFailurePc
               /\ alloc_failed' = TRUE
               /\ dma_released' = ConstructedPorts
               /\ UNCHANGED n_tab_pages
    /\ UNCHANGED << GHC, ports_implemented, PxCMD, cap_max_commands,
                    port_idx, n_ports, ctrl_ports, irq_handle, conn_scanned,
                    cmd_seen, cmd_writes, base_written, root_is, irq_port_i,
                    irq_called, irq_rv >>

\* Port::new: for i in 0 .. n_pages { tab_pages[i] = try!(alloc_dma(..)) }
CtrlAllocTab ==
    /\ ctrl_pc = "alloc_tab"
    /\ IF n_tab_pages < NewTabPages(cap_max_commands)
       THEN \E ok \in BOOLEAN :
               IF ok
               THEN /\ n_tab_pages' = n_tab_pages + 1
                    /\ UNCHANGED << ctrl_pc, alloc_failed, dma_released >>
               ELSE /\ ctrl_pc' = AllocFailurePc
                    /\ alloc_failed' = TRUE
                    /\ dma_released' = ConstructedPorts
                    /\ UNCHANGED n_tab_pages
       ELSE /\ ctrl_pc' = "program"
            /\ UNCHANGED << n_tab_pages, alloc_failed, dma_released >>
    /\ UNCHANGED << GHC, ports_implemented, PxCMD, cap_max_commands,
                    port_idx, n_ports, ctrl_ports, irq_handle, conn_scanned,
                    cmd_seen, cmd_writes, base_written, root_is, irq_port_i,
                    irq_called, irq_rv >>

\* Port::new: the command list entries are initialised, then PxCLB/PxCLBU and
\* PxFB/PxFBU are written, PxSACT, PxSERR, PxIS are cleared and PxIE is set
CtrlProgram ==
    /\ ctrl_pc = "program"
    /\ base_written' = base_written \cup { port_idx }
    /\ ctrl_pc' = "start"
    /\ UNCHANGED << GHC, ports_implemented, PxCMD, cap_max_commands,
                    port_idx, n_ports, n_tab_pages, ctrl_ports, irq_handle,
                    conn_scanned, cmd_seen, cmd_writes, alloc_failed, dma_released,
                    root_is, irq_port_i, irq_called, irq_rv >>

\* Port::new: cmd = regs.read(PxCMD); regs.write(PxCMD, cmd|PxCMD_ST|PxCMD_FRE);
\* Ok(Port { .. }); ret.ports.push(port)
CtrlStart ==
    /\ ctrl_pc = "start"
    /\ PxCMD' = [PxCMD EXCEPT ![port_idx] =
                    PxCmdWrite(@, @ \cup { PxCMD_ST, PxCMD_FRE })]
    /\ cmd_writes' = [cmd_writes EXCEPT ![port_idx] =
                         Append(@, PxCMD[port_idx] \cup { PxCMD_ST, PxCMD_FRE })]
    /\ ctrl_ports' = Append(ctrl_ports, port_idx)
    /\ port_idx' = NextPortIdx
    /\ ctrl_pc' = NextPortPc("check_idle", "enable_irq")
    /\ UNCHANGED << GHC, ports_implemented, cap_max_commands, n_ports,
                    n_tab_pages, irq_handle, conn_scanned, cmd_seen,
                    base_written, alloc_failed, dma_released, root_is, irq_port_i,
                    irq_called, irq_rv >>

\* io_base.write_32(REG_IS, !0); io_base.write_32(REG_GHC, GHC_AE|GHC_IE)
CtrlEnableIrq ==
    /\ ctrl_pc = "enable_irq"
    /\ GHC' = { GHC_AE, GHC_IE }
    /\ ctrl_pc' = "bind_irq"
    /\ UNCHANGED << ports_implemented, PxCMD, cap_max_commands, port_idx,
                    n_ports, n_tab_pages, ctrl_ports, irq_handle,
                    conn_scanned, cmd_seen, cmd_writes, base_written,
                    alloc_failed, dma_released, root_is, irq_port_i, irq_called, irq_rv >>

\* ret.irq_handle = Some(bind_object(irq, ..))
CtrlBindIrq ==
    /\ ctrl_pc = "bind_irq"
    /\ irq_handle' = TRUE
    /\ ctrl_pc' = "update_connection"
    /\ UNCHANGED << GHC, ports_implemented, PxCMD, cap_max_commands,
                    port_idx, n_ports, n_tab_pages, ctrl_ports, conn_scanned,
                    cmd_seen, cmd_writes, base_written, alloc_failed, dma_released,
                    root_is, irq_port_i, irq_called, irq_rv >>

\* for port in &ret.ports { port.update_connection(); } Ok(ret)
CtrlUpdateConnection ==
    /\ ctrl_pc = "update_connection"
    /\ IF Len(conn_scanned) < Len(ctrl_ports)
       THEN /\ conn_scanned' = Append(conn_scanned, ctrl_ports[Len(conn_scanned) + 1])
            /\ UNCHANGED ctrl_pc
       ELSE /\ ctrl_pc' = "ok"
            /\ UNCHANGED conn_scanned
    /\ UNCHANGED << GHC, ports_implemented, PxCMD, cap_max_commands,
                    port_idx, n_ports, n_tab_pages, ctrl_ports, irq_handle,
                    cmd_seen, cmd_writes, base_written, alloc_failed, dma_released,
                    root_is, irq_port_i, irq_called, irq_rv >>

\* ------------------------------------------------ Controller::handle_irq
\* let root_is = io_base.read_32(REG_IS); let mut rv = false
CtrlIrqRead ==
    /\ ctrl_pc = "ok"
    /\ root_is' \in SUBSET Ports
    /\ irq_port_i' = 1
    /\ irq_called' = << >>
    /\ irq_rv' = FALSE
    /\ ctrl_pc' = "irq_loop"
    /\ UNCHANGED << GHC, ports_implemented, PxCMD, cap_max_commands,
                    port_idx, n_ports, n_tab_pages, ctrl_ports, irq_handle,
                    conn_scanned, cmd_seen, cmd_writes, base_written,
                    alloc_failed, dma_released >>

\* for port in &self.ports { if root_is & (1 << port.index) != 0
\* { port.handle_irq(); rv = true; } } rv
CtrlIrqPort ==
    /\ ctrl_pc = "irq_loop"
    /\ IF irq_port_i <= Len(ctrl_ports)
       THEN /\ IF RootIsBitSet(root_is, ctrl_ports[irq_port_i])
               THEN /\ irq_called' = Append(irq_called, ctrl_ports[irq_port_i])
                    /\ irq_rv' = TRUE
               ELSE UNCHANGED << irq_called, irq_rv >>
            /\ irq_port_i' = irq_port_i + 1
            /\ UNCHANGED ctrl_pc
       ELSE /\ ctrl_pc' = "irq_return"
            /\ UNCHANGED << irq_called, irq_rv, irq_port_i >>
    /\ UNCHANGED << GHC, ports_implemented, PxCMD, cap_max_commands,
                    port_idx, n_ports, n_tab_pages, ctrl_ports, irq_handle,
                    conn_scanned, cmd_seen, cmd_writes, base_written,
                    alloc_failed, dma_released, root_is >>

\* The controllers Controller::new is checked with: every set of implemented
\* ports, each in a state firmware can leave it in, and command slot counts
\* with none, one and two overflow pages.
CmdValues == { {}, { PxCMD_ST, PxCMD_CR }, { PxCMD_FRE, PxCMD_FR },
               { PxCMD_ST, PxCMD_CR, PxCMD_FRE, PxCMD_FR }, { PxCMD_CR } }
CapMaxCommands == { 1, 14, HBA_MAX_COMMANDS }

InitCtrl ==
    /\ ctrl_pc = "ghc_ae"
    /\ GHC \in { {}, { GHC_AE, GHC_IE } }
    /\ ports_implemented \in SUBSET Ports
    /\ PxCMD \in [Ports -> CmdValues]
    /\ \A p \in Ports \ ports_implemented : PxCMD[p] = {}
    /\ cap_max_commands \in CapMaxCommands
    /\ port_idx = 0 /\ n_ports = 0 /\ n_tab_pages = 0
    /\ ctrl_ports = << >> /\ irq_handle = FALSE /\ conn_scanned = << >>
    /\ cmd_seen = [p \in Ports |-> {}]
    /\ cmd_writes = [p \in Ports |-> << >>]
    /\ base_written = {}
    /\ alloc_failed = FALSE
    /\ dma_released = {}
    /\ root_is = {} /\ irq_port_i = 0 /\ irq_called = << >> /\ irq_rv = FALSE
    /\ NewUnused /\ PortUnused /\ PrdtUnused
    /\ ConnUnused /\ H2dUnused /\ DmUnused

\* What the steps of Controller::new and Controller::handle_irq leave alone.
notCtrlVars == << runVars, newVars, prdtVars, connVars, h2dVars, dmVars >>

NextCtrl ==
    \/ CtrlEnableAhci /\ UNCHANGED notCtrlVars
    \/ CtrlEnumPort /\ UNCHANGED notCtrlVars
    \/ CtrlCheckIdle /\ UNCHANGED notCtrlVars
    \/ CtrlAllocCl /\ UNCHANGED notCtrlVars
    \/ CtrlAllocTab /\ UNCHANGED notCtrlVars
    \/ CtrlProgram /\ UNCHANGED notCtrlVars
    \/ CtrlStart /\ UNCHANGED notCtrlVars
    \/ CtrlEnableIrq /\ UNCHANGED notCtrlVars
    \/ CtrlBindIrq /\ UNCHANGED notCtrlVars
    \/ CtrlUpdateConnection /\ UNCHANGED notCtrlVars
    \/ CtrlIrqRead /\ UNCHANGED notCtrlVars
    \/ CtrlIrqPort /\ UNCHANGED notCtrlVars
    \/ \E p \in Ports : HwCmdCr(p) /\ UNCHANGED notCtrlVars
    \/ \E p \in Ports : HwCmdFr(p) /\ UNCHANGED notCtrlVars

SpecCtrl == InitCtrl /\ [][NextCtrl]_vars

\* ------------------------------------------------ Core/device_manager.rs
\* Drivers that may be registered.
MaxDrivers == 3
BusTypes == { "x", "y" }
Rankings == { 0, 5, 10 }
Drivers == [ bus_type : BusTypes, ranking : Rankings ]

\* Mutant of RankingBetter: a tie replaces the best driver so far.
RankingBetter_OrEqual(ranking, best) == ranking >= best
\* else if ranking > best_ranking
RankingBetter(ranking, best) == ranking > best

\* register_driver: s_driver_list.lock().push(driver); lib::Queue keeps the
\* drivers in the order they were pushed
register_driver(d) ==
    /\ dm_pc = "registering"
    /\ Len(s_driver_list) < MaxDrivers
    /\ s_driver_list' = Append(s_driver_list, d)
    /\ UNCHANGED << dm_pc, dm_bus_type, dm_i, best_ranking, best_driver, dev_driver >>

\* register_bus(manager, devices): find_driver(manager, &*d) is entered for
\* the device; let mut best_ranking = 0; let mut best_driver = None
register_bus(b) ==
    /\ dm_pc = "registering"
    /\ dm_bus_type' = b
    /\ best_ranking' = 0
    /\ best_driver' = 0
    /\ dm_i' = 1
    /\ dm_pc' = "find_driver"
    /\ UNCHANGED << s_driver_list, dev_driver >>

\* find_driver: one iteration of for driver in s_driver_list.lock().items()
FindDriverStep ==
    /\ dm_pc = "find_driver"
    /\ dm_i <= Len(s_driver_list)
    /\ LET driver == s_driver_list[dm_i]
           ranking == driver.ranking
       IN  IF dm_bus_type = driver.bus_type /\ ranking # 0
              /\ RankingBetter(ranking, best_ranking)
           THEN /\ best_driver' = dm_i
                /\ best_ranking' = ranking
           ELSE UNCHANGED << best_driver, best_ranking >>
    /\ dm_i' = dm_i + 1
    /\ UNCHANGED << dm_pc, s_driver_list, dm_bus_type, dev_driver >>

\* find_driver: best_driver.map(|d| d.bind(bus_dev)), stored in Device::driver
FindDriverBind ==
    /\ dm_pc = "find_driver"
    /\ dm_i > Len(s_driver_list)
    /\ dev_driver' = best_driver
    /\ dm_pc' = "bound"
    /\ UNCHANGED << s_driver_list, dm_bus_type, dm_i, best_ranking, best_driver >>

InitDm ==
    /\ dm_pc = "registering"
    /\ s_driver_list = << >>
    /\ dm_bus_type = "" /\ dm_i = 0
    /\ best_ranking = 0 /\ best_driver = 0 /\ dev_driver = 0
    /\ NewUnused /\ PortUnused /\ PrdtUnused
    /\ ConnUnused /\ H2dUnused /\ CtrlUnused

notDmVars == << runVars, newVars, prdtVars, connVars, h2dVars, ctrlVars >>

NextDm ==
    \/ \E d \in Drivers : register_driver(d) /\ UNCHANGED notDmVars
    \/ \E b \in BusTypes : register_bus(b) /\ UNCHANGED notDmVars
    \/ FindDriverStep /\ UNCHANGED notDmVars
    \/ FindDriverBind /\ UNCHANGED notDmVars

SpecDm == InitDm /\ [][NextDm]_vars

\* The slot pool with every caller scheduled fairly in get_command_slot and
\* in CommandSlot::drop: a thread that can take a step of either is not
\* held back forever.
FairSpec ==
    /\ Spec
    /\ \A t \in 1 .. NumThreads :
          WF_vars(AcquireStep(t)) /\ WF_vars(ReleaseStep(t))

FairSpecIrq ==
    /\ SpecIrq
    /\ WF_vars(IrqStep)
    /\ \A t \in 1 .. IrqThreads : WF_vars(DoFisStep(t))

\* ================================================================ claims
Holders == { t \in Threads : pc[t] \in HolderPcs }
\* Callers that hold a permit of the semaphore but no bit of the bitmask.
PermitOnly == { t \in Threads : pc[t] \in {"load", "cas", "sem_release"} }

\* C1: no two live CommandSlot handles (acquired, not yet dropped) have the
\* same slot index, in any interleaving of get_command_slot and drop.
C1_UniqueSlots ==
    \A t1, t2 \in Holders : t1 # t2 => slot_idx[t1] # slot_idx[t2]

\* Two handles are live at once, one of them on a slot acquired in a second
\* round.
C1_Witness ==
    \E t1, t2 \in Holders : t1 # t2 /\ ops_left[t1] < MaxOps - 1

\* C2 as stated: popcount(used_commands) == max_commands - count(sem) in
\* every state, the states between the steps of an acquire or release
\* included.
C2_AtAllTimes ==
    Cardinality(used_commands) = max_commands - used_commands_sem

\* C2 amended: the permits taken are the bits set plus the callers that are
\* between the semaphore and the bitmask (after acquire() and before their
\* swap succeeds, or after the clearing swap and before release()); so
\* popcount <= max_commands - count always, with equality when no acquire
\* or release is under way.
C2_PermitsAccounted ==
    /\ max_commands - used_commands_sem
         = Cardinality(used_commands) + Cardinality(PermitOnly)
    /\ Cardinality(used_commands) <= max_commands - used_commands_sem
    /\ PermitOnly = {} =>
         Cardinality(used_commands) = max_commands - used_commands_sem

\* One caller is between its clearing swap and release() while another
\* holds a slot.
C2_Witness ==
    \E t1, t2 \in Threads :
        pc[t1] = "sem_release" /\ pc[t2] \in HolderPcs /\ used_commands # {}

\* C3: once every acquisition has been followed by its release and all have
\* finished, the bitmask is zero and the semaphore count is max_commands.
C3_PoolRestored ==
    (\A t \in Threads : pc[t] = "idle") =>
        (used_commands = {} /\ used_commands_sem = max_commands)

\* Every caller has finished all its acquire-then-release rounds.
C3_Witness ==
    \A t \in Threads : pc[t] = "idle" /\ ops_left[t] = 0

\* The bytes of the command-list page that Port::new gives to the command
\* headers and to the received-FIS area.
HeadersEnd == new_max_commands * CMD_HEADER_SIZE
RcvdFisStart == PAGE_SIZE - RCVD_FIS_SIZE

\* The table entry lies in memory that Port::new allocated for it.
InAllocated(ref) ==
    IF ref.shared
    THEN ref.ofs >= HeadersEnd /\ ref.ofs + CMD_TABLE_SIZE <= RcvdFisStart
    ELSE /\ ref.pg < n_pages
         /\ ref.ofs + CMD_TABLE_SIZE <= PAGE_SIZE

\* C4: for every max_commands in 1..=32 the slot-to-memory function is total
\* and injective over 0..max_commands, and every slot's 256-byte table entry
\* lies in memory Port::new allocated: in the command-list page clear of the
\* headers and of the received-FIS area, or in an overflow page that was
\* allocated.
C4_LayoutTotalInjective ==
    /\ new_pc \notin {"index_out_of_bounds", "assert_n_pages_failed"}
    /\ \A i \in 1 .. Len(tabents) : InAllocated(tabents[i])
    /\ \A i, j \in 1 .. Len(tabents) : i # j => tabents[i] # tabents[j]

\* C5: a slot's event is posted by the handler at most once per issued
\* command, and only when the command issued on the slot has visibly
\* completed or errored (never while the slot is acquired but not issued, or
\* executing without error).
C5_PostOncePerCompletion ==
    /\ ~early_post
    /\ \A s \in Slots : posts[s] <= 1

\* C6: a command that the hardware completed has its waiter woken: the
\* caller asleep in CommandSlot::wait on a slot whose PxCI bit is clear
\* eventually leaves the sleep (or the kernel has panicked).
C6_CompletionWakes ==
    \A t \in 1 .. IrqThreads :
        (pc[t] = "sleep" /\ slot_idx[t] \notin PxCI) ~> (pc[t] # "sleep" \/ Halted)

\* The buffer do_fis was given: its last virtual page (it starts in page 0),
\* the pages it spans, and how they lie in physical memory.
FisFinalPcs == {"issue", "todo_bounce_buffer", "panic_prdt_index"}
LastPage == (data_va + data_len - 1) \div PAGE_SIZE
PagesSpanned == LastPage + 1
ContiguousBuffer ==
    /\ data_len > 0
    /\ \A p \in 1 .. Min(LastPage, Len(page_frames)) : FrameOf(p) = FrameOf(p - 1) + 1
ScatteredBuffer ==
    /\ data_len > 0
    /\ LastPage < Len(page_frames)
    /\ \A p \in 1 .. LastPage : FrameOf(p) # FrameOf(p - 1) + 1
AlignedBuffer == get_phys(data_va) % 4 = 0 /\ data_len % 2 = 0
OneEntryWithIoc == Len(prdt) = 1 /\ n_prdt_ents = 1 /\ PRDTL = 1 /\ prdt[1].IOC

\* C7 as stated: over one physically contiguous buffer of at most 4MB, at any
\* start offset within its first page, do_fis ends with exactly one PRDT
\* entry, PRDTL = 1 and the interrupt-on-completion flag set on it.
C7_OneEntryAnyOffset ==
    (ContiguousBuffer /\ data_len <= MAX_SEG_LEN /\ fis_pc \in FisFinalPcs) =>
        (fis_pc = "issue" /\ OneEntryWithIoc)

\* C7 amended: the same for a buffer whose physical start is 4-byte aligned
\* and whose length is even; do_fis then never stops at the todo!() of the
\* bounce buffer and ends with the one entry, which starts at the buffer's
\* physical address and counts its length.
C7_OneEntryAligned ==
    (ContiguousBuffer /\ data_len <= MAX_SEG_LEN /\ AlignedBuffer) =>
        /\ fis_pc \notin {"todo_bounce_buffer", "panic_prdt_index"}
        /\ fis_pc = "issue" =>
             /\ OneEntryWithIoc
             /\ prdt[1].DBA = get_phys(data_va)
             /\ prdt[1].DBC = data_len - 1

\* A contiguous buffer of exactly 4MB that starts 4 bytes into its first page
\* has been described.
C7_Witness ==
    /\ fis_pc = "issue"
    /\ ContiguousBuffer /\ AlignedBuffer
    /\ data_len = MAX_SEG_LEN /\ data_va = 4

\* C8: over a buffer that spans k pages of which no two adjacent ones are
\* physically contiguous, do_fis ends with exactly k PRDT entries, one per
\* page, and the interrupt-on-completion flag on the last entry only.
C8_OneEntryPerPage ==
    (ScatteredBuffer /\ fis_pc = "issue") =>
        /\ Len(prdt) = PagesSpanned
        /\ PRDTL = PagesSpanned
        /\ \A i \in 1 .. Len(prdt) : prdt[i].IOC <=> (i = Len(prdt))

\* C9: once wait has classified the wake, the outcome follows the slot's
\* issue bit and error bit: error bit set (whatever the issue bit) is the
\* fatal "errored"; otherwise issue bit set is the fatal "woken while still
\* active"; otherwise success. A command whose error bit is set is never
\* reported as success.
WaitOutcomePcs == {"drop_read_ci", "panic_still_active", "panic_errored"}
C9_ErrorNeverSuccess ==
    \A t \in Threads :
        pc[t] \in WaitOutcomePcs =>
            pc[t] = IF slot_idx[t] \in PxSERR THEN "panic_errored"
                    ELSE IF slot_idx[t] \in PxCI THEN "panic_still_active"
                    ELSE "drop_read_ci"

\* C10: a caller that scans the bitmask with a permit finds a clear bit below
\* max_commands, so assert!(avail < max_commands) never fails; the live
\* holders never exceed max_commands, and no permit is left when every slot
\* is taken.
C10_AvailFound ==
    /\ \A t \in Threads :
         pc[t] = "cas" => SearchAvail(cur_used_commands[t], max_commands) < max_commands
    /\ \A t \in Threads : pc[t] # "assert_avail_failed"
    /\ Cardinality(Holders) <= max_commands
    /\ used_commands = Slots => used_commands_sem = 0

\* A caller is about to scan a value that names a slot in use and that the
\* bitmask has since left (its swap fails and it scans the reloaded value),
\* while every permit is taken.
C10_Witness ==
    \E t \in Threads :
        /\ pc[t] = "cas"
        /\ cur_used_commands[t] # {}
        /\ cur_used_commands[t] # used_commands
        /\ used_commands_sem = 0

\* C11: releasing a CommandSlot first checks the hardware: with the slot's
\* PxCI bit still set the release is fatal and the pool (bitmask and
\* semaphore) is not changed, then or ever after; otherwise the successful
\* compare-and-swap clears exactly that slot's bit of the bitmask as it is at
\* that moment, a failed one changes nothing, and the release that follows
\* returns exactly one permit.
C11_DropStep ==
    \A t \in Threads :
        /\ (pc[t] = "drop_read_ci" /\ pc'[t] # "drop_read_ci") =>
              /\ pc'[t] = IF slot_idx[t] \in PxCI
                          THEN "todo_drop_still_active" ELSE "drop_load"
              /\ UNCHANGED << used_commands, used_commands_sem >>
        /\ (pc[t] = "drop_cas" /\ pc'[t] = "sem_release") =>
              /\ slot_idx[t] \in used_commands
              /\ used_commands' = used_commands \ {slot_idx[t]}
              /\ UNCHANGED used_commands_sem
        /\ (pc[t] = "drop_cas" /\ pc'[t] = "drop_load") =>
              UNCHANGED << used_commands, used_commands_sem >>
        /\ (pc[t] = "sem_release" /\ pc'[t] # "sem_release") =>
              /\ used_commands_sem' = used_commands_sem + 1
              /\ UNCHANGED used_commands
        /\ pc[t] = "todo_drop_still_active" =>
              UNCHANGED << used_commands, used_commands_sem >>
C11_ReleaseProtocol == [][C11_DropStep]_vars

\* One holder's release was fatal because its command was still issued, and
\* another holder has cleared its own bit while the first one's bit stayed.
C11_Witness ==
    \E t \in Threads, u \in Threads :
        /\ pc[t] = "todo_drop_still_active"
        /\ slot_idx[t] \in used_commands
        /\ pc[u] = "sem_release"

\* C12: update_connection issues a command determined only by readiness and
\* signature. With neither BSY nor DRQ in the task-file status and the
\* PHY-detect field equal to 3, signature 0x00000101 issues exactly one
\* command 0xEC, signature 0xEB140101 exactly one command 0xA1, and any other
\* signature none; with BSY or DRQ set or PHY-detect not 3, none is issued
\* whatever the signature.
ConnReady ==
    /\ (PxTFD \div 128) % 2 = 0
    /\ (PxTFD \div 8) % 2 = 0
    /\ PxSSTS % 16 = 3
C12_CommandBySignature ==
    conn_pc = "done" =>
        conn_cmds = IF ~ConnReady THEN << >>
                    ELSE IF PxSIG = << 0, 0, 1, 1 >> THEN << 236 >>
                    ELSE IF PxSIG = << 235, 20, 1, 1 >> THEN << 161 >>
                    ELSE << >>

\* A ready port with the ATAPI signature and the speed and power fields of
\* PxSSTS set has been asked for IDENTIFY PACKET.
C12_Witness ==
    /\ conn_pc = "done"
    /\ PxSIG = SIG_ATAPI /\ PxSSTS = 275 /\ PxTFD = 80
    /\ conn_cmds = << ATA_IDENTIFY_PACKET >>

\* C13: for every LBA below 2^28, disk 0 or 1 and sector count of a byte,
\* request_ata_lba28 builds a FIS, and decoding sector_num, cyl_low, cyl_high
\* and the low 4 bits of dev_head gives back the LBA, bit 4 of dev_head the
\* disk select, and sector_count the count.
H2dFinalPcs == { "do_fis", "assert_lba_failed" }
DecodedLba(fis) ==
    fis.sector_num + 256 * fis.cyl_low + 65536 * fis.cyl_high
        + 16777216 * (fis.dev_head % 16)
DecodedDisk(fis) == (fis.dev_head \div 16) % 2
C13_Lba28RoundTrip ==
    (h2d_pc \in H2dFinalPcs /\ h2d_lba < 268435456) =>
        /\ h2d_pc = "do_fis"
        /\ DecodedLba(cmd_data) = h2d_lba
        /\ DecodedDisk(cmd_data) = h2d_disk
        /\ cmd_data.sector_count = h2d_n_sectors

\* The driver has programmed some port: written its base-address registers,
\* or written its command register with anything but 0.
SomePortProgrammed ==
    \/ base_written # {}
    \/ \E p \in DOMAIN cmd_writes :
          \E i \in 1 .. Len(cmd_writes[p]) : cmd_writes[p][i] # {}
\* The step writes PxCMD of port p with ST set.
StartsEngine(p) ==
    /\ Len(cmd_writes'[p]) = Len(cmd_writes[p]) + 1
    /\ PxCMD_ST \in cmd_writes'[p][Len(cmd_writes'[p])]
CtrlStopped ==
    UNCHANGED << ctrl_pc, GHC, port_idx, ctrl_ports, irq_handle, conn_scanned,
                 cmd_writes, base_written >>

\* C14: during Controller::new every implemented port found with any of
\* ST/CR/FRE/FR set has had 0 written to its command register before any
\* port is programmed; no port's base-address registers are written, nor its
\* engine started, while its command register shows CR or FR; and a port
\* that still shows CR or FR when its turn comes stops construction, without
\* having been programmed.
C14_IdleBeforeProgramming ==
    /\ SomePortProgrammed =>
          /\ ctrl_pc \notin { "ghc_ae", "enum" }
          /\ \A q \in ports_implemented :
                CmdNotIdle(cmd_seen[q]) =>
                    Len(cmd_writes[q]) >= 1 /\ cmd_writes[q][1] = {}
    /\ ctrl_pc = "todo_wait_idle" =>
          /\ port_idx \notin base_written
          /\ \A i \in 1 .. Len(cmd_writes[port_idx]) : cmd_writes[port_idx][i] = {}
          /\ \A i \in 1 .. Len(ctrl_ports) : ctrl_ports[i] # port_idx
C14_BusyStep ==
    /\ \A p \in DOMAIN PxCMD :
          /\ (p \notin base_written /\ p \in base_written') =>
                ~CmdRunning(PxCMD[p])
          /\ StartsEngine(p) => ~CmdRunning(PxCMD[p])
    /\ ctrl_pc = "check_idle" /\ port_idx \in ports_implemented
          /\ (PxCMD[port_idx] \cap { "CR", "FR" }) # {} /\ ctrl_pc' # ctrl_pc
          => ctrl_pc' = "todo_wait_idle"
    /\ ctrl_pc = "todo_wait_idle" => CtrlStopped
C14_NeverTouchedBusy == [](C14_IdleBeforeProgramming) /\ [][C14_BusyStep]_vars

\* Port 0 was found with its engine and FIS receive running, was told to go
\* idle, was programmed and started once it had gone idle, and port 1 then
\* stopped construction because it was still running.
C14_Witness ==
    /\ ctrl_pc = "todo_wait_idle"
    /\ port_idx = 1
    /\ cmd_seen[0] = { PxCMD_ST, PxCMD_CR, PxCMD_FRE, PxCMD_FR }
    /\ 0 \in base_written
    /\ PxCMD_ST \in PxCMD[0]

\* C15: if a DMA allocation fails during Controller::new (the command-list
\* page or an overflow command-table page of any port), construction returns
\* the bind error there and then, and on that path HBA interrupts are not
\* globally enabled, no interrupt handler is bound and no connection scan is
\* made.
C15_FailedState ==
    alloc_failed =>
        /\ ctrl_pc = "bind_error"
        /\ GHC_IE \notin GHC
        /\ ~irq_handle
        /\ conn_scanned = << >>
C15_AllocFailureAborts ==
    [](C15_FailedState) /\ [][ctrl_pc = "bind_error" => CtrlStopped]_vars

\* The second overflow page of the second port could not be allocated, after
\* the first port had been constructed.
C15_Witness ==
    /\ alloc_failed
    /\ ctrl_pc = "bind_error"
    /\ Len(ctrl_ports) = 1
    /\ n_tab_pages = 1

\* C16: Controller::handle_irq calls Port::handle_irq for exactly the
\* constructed ports whose index bit is set in the root interrupt status it
\* read, each at most once and no other port, and returns true if and only
\* if it called at least one.
C16_CalledPorts ==
    ctrl_pc = "irq_return" =>
        /\ { irq_called[i] : i \in 1 .. Len(irq_called) } = ConstructedPorts \cap root_is
        /\ Len(irq_called) = Cardinality(ConstructedPorts \cap root_is)
        /\ irq_rv <=> (ConstructedPorts \cap root_is # {})

\* The status had the bits of a constructed port and of a port that was not
\* constructed, and only the first was called.
C16_Witness ==
    /\ ctrl_pc = "irq_return"
    /\ root_is \ ConstructedPorts # {}
    /\ Len(irq_called) = 1
    /\ irq_rv

\* C17: find_driver binds, among the registered drivers whose bus type is
\* the bus's, the one with the strictly highest non-zero ranking for the
\* device, whatever the registration order; among several with that highest
\* ranking the first registered; and none if every matching driver ranks 0
\* or no driver matches the bus type.
Candidates ==
    { i \in 1 .. Len(s_driver_list) :
        s_driver_list[i].bus_type = dm_bus_type /\ s_driver_list[i].ranking > 0 }
TopCandidates ==
    { i \in Candidates :
        \A j \in Candidates : s_driver_list[j].ranking <= s_driver_list[i].ranking }
C17_BestDriverBound ==
    dm_pc = "bound" =>
        IF Candidates = {} THEN dev_driver = 0
        ELSE /\ dev_driver \in TopCandidates
             /\ \A j \in TopCandidates : dev_driver <= j

\* A ranking-5 driver, a ranking-10 driver and a second ranking-10 driver
\* were registered for the bus type in that order, and the first of the two
\* ranking-10 drivers was bound.
C17_Witness ==
    /\ dm_pc = "bound"
    /\ Len(s_driver_list) = 3
    /\ \A i \in 1 .. 3 : s_driver_list[i].bus_type = dm_bus_type
    /\ s_driver_list[1].ranking = 5
    /\ s_driver_list[2].ranking = 10
    /\ s_driver_list[3].ranking = 10
    /\ dev_driver = 2

\* C18: in one invocation of Port::handle_irq, whichever interrupt-status
\* bits fired, the events posted are exactly those of the slots marked used
\* in the bitmask whose command-issue bit is clear, or whose SATA-active bit
\* is clear, or whose bit is set in the SATA-error register (values as the
\* handler read them); each is posted exactly once and no unused slot's
\* event is posted.
SlotsScanned ==
    IF irq_pc = "ack" THEN 0 .. (max_commands - 1) ELSE 0 .. (irq_cmd - 1)
SlotsToPost ==
    { c \in SlotsScanned :
        /\ c \in irq_used_commands
        /\ (c \notin issued_commands \/ c \notin active_commands
            \/ c \in error_commands) }
C18_PostedSet ==
    irq_pc \in { "scan", "ack" } =>
        /\ { irq_posted[i] : i \in 1 .. Len(irq_posted) } = SlotsToPost
        /\ Len(irq_posted) = Cardinality(SlotsToPost)

\* The handler has scanned a port with one used slot whose command is still
\* issued and active with its error bit set (posted) and another used slot
\* still issued and active without error (not posted).
C18_Witness ==
    /\ irq_pc = "ack"
    /\ Len(irq_posted) = 1
    /\ irq_posted[1] \in (issued_commands \cap active_commands \cap error_commands)
    /\ \E c \in irq_used_commands \cap issued_commands \cap active_commands :
          c \notin error_commands

\* C19: the interrupt handler never blocks and leaves the slot pool as it
\* is: none of its steps changes the semaphore or the used-bitmask, once
\* entered it can always take its next step, and the bitmask changes only in
\* the compare-and-swap of get_command_slot and of CommandSlot::drop.
C19_HandlerStep ==
    /\ irqVars' # irqVars => UNCHANGED << used_commands, used_commands_sem >>
    /\ used_commands' # used_commands =>
          \E t \in Threads :
              /\ pc[t] \in { "cas", "drop_cas" }
              /\ pc'[t] # pc[t]
              /\ irqVars' = irqVars
C19_HandlerRuns == (irq_pc # "idle" /\ ~Halted) => ENABLED IrqStep
C19_PoolUntouchedByIrq == [](C19_HandlerRuns) /\ [][C19_HandlerStep]_vars

\* The handler has scanned the port and posted an event while slots were
\* taken from the pool.
C19_Witness ==
    /\ irq_pc = "ack"
    /\ irq_posted # << >>
    /\ used_commands # {}
    /\ used_commands_sem < max_commands

\* C20: for every non-empty buffer and every page mapping, the PRDT that
\* do_fis builds describes the buffer faithfully: each entry's byte range
\* [DBA, DBA+len) is the physical image of the consecutive virtual bytes it
\* stands for, each length is at most 4MB and stored as length minus one,
\* the lengths sum to the buffer length, PRDTL is the number of entries, and
\* the interrupt-on-completion flag is set on the last entry only.
EntryLen(i) == prdt[i].DBC + 1
RECURSIVE LenBefore(_)
LenBefore(i) == IF i <= 1 THEN 0 ELSE LenBefore(i - 1) + EntryLen(i - 1)
\* The n virtual bytes from v lie at the n physical bytes from dba: checked
\* at v and at every page start in the range, get_phys being linear within
\* a page.
PhysicalImage(v, n, dba) ==
    \A pg \in (v \div PAGE_SIZE) .. ((v + n - 1) \div PAGE_SIZE) :
        LET a == IF pg * PAGE_SIZE > v THEN pg * PAGE_SIZE ELSE v
        IN  get_phys(a) = dba + (a - v)
C20_PrdtFaithful ==
    (fis_pc = "issue" /\ data_len > 0) =>
        /\ \A i \in 1 .. Len(prdt) :
              /\ EntryLen(i) <= MAX_SEG_LEN
              /\ PhysicalImage(data_va + LenBefore(i), EntryLen(i), prdt[i].DBA)
              /\ prdt[i].IOC <=> (i = Len(prdt))
        /\ LenBefore(Len(prdt) + 1) = data_len
        /\ PRDTL = Len(prdt)

\* C21: in Controller::new every implemented port is fully constructed (its
\* DMA regions allocated, base registers programmed, engine started, Port
\* pushed) before the driver enables HBA interrupts globally and before the
\* interrupt handler is bound, and no port's connection scan is made before
\* the handler is bound.
PortConstructed(p) ==
    /\ p \in ConstructedPorts
    /\ p \in base_written
    /\ PxCMD_ST \in PxCMD[p] /\ PxCMD_FRE \in PxCMD[p]
C21_ConstructionOrder ==
    /\ ((ctrl_pc # "ghc_ae" /\ GHC_IE \in GHC) \/ irq_handle) =>
          \A p \in ports_implemented : PortConstructed(p)
    /\ conn_scanned # << >> => (irq_handle /\ GHC_IE \in GHC)

\* Two ports were constructed, interrupts enabled, the handler bound, and
\* both ports' connections scanned.
C21_Witness ==
    /\ Len(conn_scanned) >= 2
    /\ irq_handle
    /\ Cardinality(ports_implemented) >= 2
    /\ \A p \in ports_implemented : PortConstructed(p)

\* C22: a caller that holds a permit leaves the compare-and-swap loop of
\* get_command_slot with a slot, and a caller in the loop of
\* CommandSlot::drop leaves it with its bit cleared, when every thread is
\* scheduled fairly and the calls are finitely many; a compare-and-swap
\* fails only if the bitmask has changed since the caller loaded it. (A
\* holder that drops its handle while its command is still issued stops the
\* kernel at todo!(), and every loop with it.)
KernelStoppedAtTodo == \E u \in DOMAIN pc : pc[u] = "todo_drop_still_active"
C22_CasFailsOnlyOnChange ==
    \A t \in DOMAIN pc :
        /\ (pc[t] = "cas" /\ pc'[t] = "load") =>
              used_commands # cur_used_commands[t]
        /\ (pc[t] = "drop_cas" /\ pc'[t] = "drop_load") =>
              used_commands # cur_used_commands[t]
C23_NoSpuriousWake ==
    PxSERR = {} => \A t \in DOMAIN pc : pc[t] # "panic_still_active"

\* C24: do_fis never indexes the PRDT out of range when it sets the
\* interrupt-on-completion flag: for every buffer length, zero included, the
\* index n_prdt_ents-1 is that of an entry that was written, and the command
\* is issued with PRDTL equal to the number of entries emitted.
C24_IocIndexValid ==
    /\ fis_pc # "panic_prdt_index"
    /\ fis_pc = "set_ioc" => (n_prdt_ents >= 1 /\ n_prdt_ents <= Len(prdt))
    /\ fis_pc = "issue" => PRDTL = Len(prdt)

\* C25: when Controller::new fails with a bind error after one or more ports
\* were constructed, no port is left with its command engine started (ST or
\* FRE set) while its command-list and FIS base registers point at DMA memory
\* released with the discarded Port objects.
C25_NoEngineOnReleasedDma ==
    ctrl_pc = "bind_error" =>
        \A p \in dma_released :
            ~(p \in base_written /\ PxCMD[p] \cap { PxCMD_ST, PxCMD_FRE } # {})

====
